---- MODULE Spec2Model ----
(***************************************************************************)
(* Project Alice front-end: the API Facade (ApiContext.tsx) and the Chat   *)
(* Session Controller (ChatContext.tsx) as state machines.                 *)
(*                                                                         *)
(* JavaScript runs one task at a time: an async function runs without      *)
(* interruption from one suspension point (a remote call, a dialog) to the *)
(* next.  Every action below is one such run: the call of an operation up  *)
(* to its first remote call, or the settling of a remote call (or of a     *)
(* dialog) up to the next remote call or to the end of the operation.      *)
(* What an invocation does, in order, is kept in its log.                  *)
(***************************************************************************)
EXTENDS Integers, Sequences, FiniteSets, TLC

\* Bounds of the model.
MaxApiCalls == 2        \* API Facade invocations in one behaviour
MaxCtlCalls == 2        \* Chat Session Controller invocations in one behaviour
MaxMsgs == 3            \* longest message sequence the backend holds for a chat

Collections == {"chats", "files"}
NoTranscript == "none"
OldTranscript == "t0"
NewTranscript == "t1"

VARIABLES
    api,            \* API Facade invocations made by components, in call order
    fileTranscript, \* backend: the transcript of the file, or NoTranscript
    ctl,            \* Chat Session Controller invocations, in call order
    chats,          \* backend: chat id -> chat record
    messages,       \* useState: messages
    pastChats,      \* useState: pastChats
    currentChatId,  \* useState: currentChatId
    agents,         \* useState: agents
    isGenerating,   \* useState: isGenerating
    currentChat     \* useState: currentChat

vars == <<api, fileTranscript, ctl, chats, messages, pastChats, currentChatId,
          agents, isGenerating, currentChat>>
ctlVars == <<ctl, chats, messages, pastChats, currentChatId, agents,
             isGenerating, currentChat>>

----------------------------------------------------------------------------
\* Log entries: <<kind, function that made it, detail, detail>>.

called(who, arg) == <<"call", who, arg, "">>
remoteCall(who, endpoint) == <<"remote", who, endpoint, "">>
settled(who, endpoint, outcome) == <<"settle", who, endpoint, outcome>>
addNotification(who, severity) == <<"notify", who, severity, "">>
emitEvent(who, eventType, collectionName) == <<"emit", who, eventType, collectionName>>
\* An event together with the variable passed as its payload.
emitEventData(who, eventType, collectionName, data) ==
    emitEvent(who, eventType, collectionName) \o <<data>>
openDialog(who) == <<"dialog", who, "open", "">>
dialogChoice(who, choice) == <<"dialog", who, choice, "">>
returned(who, value) == <<"return", who, value, "">>
thrown(who) == <<"throw", who, "error", "">>

----------------------------------------------------------------------------
\* API Facade (ApiContext.tsx): what each operation does, in order, in each
\* of its runs.  The same definitions serve an invocation made by a component
\* and one made by the Chat Session Controller.

createItemCall(c) == <<called("createItem", c), remoteCall("createItem", "apiCreateItem")>>
createItemThenEventFirst(c) ==
    <<settled("createItem", "apiCreateItem", "ok"),
      emitEvent("createItem", "created", c),
      addNotification("createItem", "success"),
      returned("createItem", "item")>>
createItemThen(c) ==
    <<settled("createItem", "apiCreateItem", "ok"),
      addNotification("createItem", "success"),
      emitEvent("createItem", "created", c),
      returned("createItem", "item")>>
createItemCatch(c) ==
    <<settled("createItem", "apiCreateItem", "err"),
      addNotification("createItem", "error"),
      thrown("createItem")>>

updateItemCall(c) == <<called("updateItem", c), remoteCall("updateItem", "apiUpdateItem")>>
updateItemThen(c) ==
    <<settled("updateItem", "apiUpdateItem", "ok"),
      addNotification("updateItem", "success"),
      emitEvent("updateItem", "updated", c),
      returned("updateItem", "item")>>
updateItemCatch(c) ==
    <<settled("updateItem", "apiUpdateItem", "err"),
      addNotification("updateItem", "error"),
      thrown("updateItem")>>

deleteItemCallDirect(c) == <<called("deleteItem", c), remoteCall("deleteItem", "apiDeleteItem")>>
deleteItemCall(c) == <<called("deleteItem", c), openDialog("deleteItem")>>
deleteItemOnConfirm == <<dialogChoice("deleteItem", "confirm"), remoteCall("deleteItem", "apiDeleteItem")>>
deleteItemThen(c) ==
    <<settled("deleteItem", "apiDeleteItem", "ok"),
      addNotification("deleteItem", "success"),
      emitEvent("deleteItem", "deleted", c),
      returned("deleteItem", "true")>>
deleteItemCatchRethrow(c) ==
    <<settled("deleteItem", "apiDeleteItem", "err"),
      addNotification("deleteItem", "error"),
      thrown("deleteItem")>>
deleteItemCatch(c) ==
    <<settled("deleteItem", "apiDeleteItem", "err"),
      addNotification("deleteItem", "error"),
      returned("deleteItem", "false")>>
deleteItemOnCancel(c) ==
    <<dialogChoice("deleteItem", "cancel"),
      addNotification("deleteItem", "info"),
      returned("deleteItem", "false")>>

executeTaskCall == <<called("executeTask", "task"), remoteCall("executeTask", "apiExecuteTask")>>
executeTaskThen ==
    <<settled("executeTask", "apiExecuteTask", "ok"),
      addNotification("executeTask", "success"),
      emitEvent("executeTask", "created", "taskresults"),
      returned("executeTask", "result")>>
executeTaskCatch ==
    <<settled("executeTask", "apiExecuteTask", "err"),
      addNotification("executeTask", "error"),
      thrown("executeTask")>>

generateChatResponseCall(chatId) ==
    <<called("generateChatResponse", chatId),
      remoteCall("generateChatResponse", "apiGenerateChatResponse")>>
generateChatResponseThenAlways(result) ==
    <<settled("generateChatResponse", "apiGenerateChatResponse", "ok"),
      addNotification("generateChatResponse", "success"),
      remoteCall("generateChatResponse", "apiFetchItem")>>
generateChatResponseThen(result) ==
    <<settled("generateChatResponse", "apiGenerateChatResponse", "ok"),
      addNotification("generateChatResponse", "success")>>
    \o (IF result
        THEN <<remoteCall("generateChatResponse", "apiFetchItem")>>
        ELSE <<returned("generateChatResponse", "false")>>)
generateChatResponseCatch ==
    <<settled("generateChatResponse", "apiGenerateChatResponse", "err"),
      addNotification("generateChatResponse", "error"),
      thrown("generateChatResponse")>>
generateChatResponseFetchThen ==
    <<settled("generateChatResponse", "apiFetchItem", "ok"),
      emitEventData("generateChatResponse", "updated", "chats", "updatedChat"),
      returned("generateChatResponse", "true")>>
generateChatResponseFetchCatch ==
    <<settled("generateChatResponse", "apiFetchItem", "err"),
      addNotification("generateChatResponse", "error"),
      thrown("generateChatResponse")>>

sendMessageCall(chatId) == <<called("sendMessage", chatId), remoteCall("sendMessage", "apiSendMessage")>>
sendMessageThenChatFirst ==
    <<settled("sendMessage", "apiSendMessage", "ok"),
      addNotification("sendMessage", "success"),
      emitEventData("sendMessage", "updated", "chats", "result"),
      emitEventData("sendMessage", "created", "messages", "message"),
      returned("sendMessage", "chat")>>
sendMessageThen ==
    <<settled("sendMessage", "apiSendMessage", "ok"),
      addNotification("sendMessage", "success"),
      emitEventData("sendMessage", "created", "messages", "message"),
      emitEventData("sendMessage", "updated", "chats", "result"),
      returned("sendMessage", "chat")>>
sendMessageCatchSwallow ==
    <<settled("sendMessage", "apiSendMessage", "err"),
      addNotification("sendMessage", "error"),
      returned("sendMessage", "chat")>>
sendMessageCatch ==
    <<settled("sendMessage", "apiSendMessage", "err"),
      addNotification("sendMessage", "error"),
      thrown("sendMessage")>>

uploadFileContentReferenceCall ==
    <<called("uploadFileContentReference", "file"),
      remoteCall("uploadFileContentReference", "apiUploadFileContentReference")>>
uploadFileContentReferenceThen ==
    <<settled("uploadFileContentReference", "apiUploadFileContentReference", "ok"),
      addNotification("uploadFileContentReference", "success"),
      emitEvent("uploadFileContentReference", "created", "files"),
      returned("uploadFileContentReference", "file")>>
uploadFileContentReferenceCatch ==
    <<settled("uploadFileContentReference", "apiUploadFileContentReference", "err"),
      addNotification("uploadFileContentReference", "error"),
      thrown("uploadFileContentReference")>>

updateFileCall == <<called("updateFile", "file"), remoteCall("updateFile", "apiUpdateFile")>>
updateFileThenEventFirst ==
    <<settled("updateFile", "apiUpdateFile", "ok"),
      emitEvent("updateFile", "updated", "files"),
      addNotification("updateFile", "success"),
      returned("updateFile", "file")>>
updateFileThen ==
    <<settled("updateFile", "apiUpdateFile", "ok"),
      addNotification("updateFile", "success"),
      emitEvent("updateFile", "updated", "files"),
      returned("updateFile", "file")>>
updateFileCatch ==
    <<settled("updateFile", "apiUpdateFile", "err"),
      addNotification("updateFile", "error"),
      thrown("updateFile")>>

requestFileTranscriptCall ==
    <<called("requestFileTranscript", "file"), remoteCall("requestFileTranscript", "apiFetchItem")>>
requestFileTranscriptFetchThenAlways(fileData) ==
    <<settled("requestFileTranscript", "apiFetchItem", "ok"),
      remoteCall("requestFileTranscript", "apiRequestFileTranscript")>>
requestFileTranscriptFetchThen(fileData) ==
    <<settled("requestFileTranscript", "apiFetchItem", "ok")>>
    \o (IF fileData # NoTranscript
        THEN <<openDialog("requestFileTranscript")>>
        ELSE <<remoteCall("requestFileTranscript", "apiRequestFileTranscript")>>)
requestFileTranscriptFetchCatch ==
    <<settled("requestFileTranscript", "apiFetchItem", "err"),
      addNotification("requestFileTranscript", "error"),
      thrown("requestFileTranscript")>>
requestFileTranscriptOnConfirm ==
    <<dialogChoice("requestFileTranscript", "confirm"),
      remoteCall("requestFileTranscript", "apiRequestFileTranscript")>>
requestFileTranscriptOnCancelRejects(fileData) ==
    <<dialogChoice("requestFileTranscript", "cancel"),
      addNotification("requestFileTranscript", "info"),
      thrown("requestFileTranscript")>>
requestFileTranscriptOnCancel(fileData) ==
    <<dialogChoice("requestFileTranscript", "cancel"),
      addNotification("requestFileTranscript", "info"),
      returned("requestFileTranscript", fileData)>>
requestFileTranscriptThen ==
    <<settled("requestFileTranscript", "apiRequestFileTranscript", "ok")>>
    \o updateItemCall("files")
requestFileTranscriptCatch ==
    <<settled("requestFileTranscript", "apiRequestFileTranscript", "err"),
      addNotification("requestFileTranscript", "error"),
      thrown("requestFileTranscript")>>
requestFileTranscriptUpdateThen(transcript) ==
    updateItemThen("files")
    \o <<addNotification("requestFileTranscript", "success"),
         returned("requestFileTranscript", transcript)>>
requestFileTranscriptUpdateCatch ==
    updateItemCatch("files")
    \o <<addNotification("requestFileTranscript", "error"),
         thrown("requestFileTranscript")>>

updateMessageInChatCall ==
    <<called("updateMessageInChat", "chat"),
      remoteCall("updateMessageInChat", "apiUpdateMessageInChat")>>
updateMessageInChatThen ==
    <<settled("updateMessageInChat", "apiUpdateMessageInChat", "ok"),
      addNotification("updateMessageInChat", "success"),
      emitEvent("updateMessageInChat", "updated", "messages"),
      remoteCall("updateMessageInChat", "apiFetchItem")>>
updateMessageInChatCatch ==
    <<settled("updateMessageInChat", "apiUpdateMessageInChat", "err"),
      addNotification("updateMessageInChat", "error"),
      thrown("updateMessageInChat")>>
updateMessageInChatFetchThen ==
    <<settled("updateMessageInChat", "apiFetchItem", "ok"),
      emitEvent("updateMessageInChat", "updated", "chats"),
      returned("updateMessageInChat", "message")>>
updateMessageInChatFetchCatch ==
    <<settled("updateMessageInChat", "apiFetchItem", "err"),
      addNotification("updateMessageInChat", "error"),
      thrown("updateMessageInChat")>>

purgeAndReinitializeDatabaseCall ==
    <<called("purgeAndReinitializeDatabase", ""),
      remoteCall("purgeAndReinitializeDatabase", "apiPurgeAndReinitializeDatabase")>>
purgeAndReinitializeDatabaseThen ==
    <<settled("purgeAndReinitializeDatabase", "apiPurgeAndReinitializeDatabase", "ok"),
      addNotification("purgeAndReinitializeDatabase", "success"),
      emitEvent("purgeAndReinitializeDatabase", "databasePurged", ""),
      returned("purgeAndReinitializeDatabase", "void")>>
purgeAndReinitializeDatabaseCatch ==
    <<settled("purgeAndReinitializeDatabase", "apiPurgeAndReinitializeDatabase", "err"),
      addNotification("purgeAndReinitializeDatabase", "error"),
      thrown("purgeAndReinitializeDatabase")>>

\* fetchItem and retrieveFile are the service functions themselves, handed
\* through the context value unwrapped.
fetchItemCall(c) == <<called("fetchItem", c), remoteCall("fetchItem", "apiFetchItem")>>
fetchItemThen == <<settled("fetchItem", "apiFetchItem", "ok"), returned("fetchItem", "item")>>
fetchItemCatch == <<settled("fetchItem", "apiFetchItem", "err"), thrown("fetchItem")>>

retrieveFileCall == <<called("retrieveFile", "file"), remoteCall("retrieveFile", "apiRetrieveFile")>>
retrieveFileThen == <<settled("retrieveFile", "apiRetrieveFile", "ok"), returned("retrieveFile", "blob")>>
retrieveFileCatch == <<settled("retrieveFile", "apiRetrieveFile", "err"), thrown("retrieveFile")>>

----------------------------------------------------------------------------
\* API Facade invocations made by components.

\* What an invocation is suspended on: the remote call or the dialog its log
\* ends with; it has settled when its log ends with anything else.
Pending(log) ==
    LET e == log[Len(log)]
    IN  IF e[1] = "remote" THEN <<e[2], e[3]>>
        ELSE IF e[1] = "dialog" /\ e[3] = "open" THEN <<e[2], "dialog">>
        ELSE <<"", "done">>

Done(t) == Pending(t.log) = <<"", "done">>

\* How the promise an invocation returned has settled.
Outcome(t) ==
    IF ~Done(t) THEN "pending"
    ELSE IF t.log[Len(t.log)][1] = "throw" THEN "rejected"
    ELSE t.log[Len(t.log)][3]

ApiCall(op, coll, log) ==
    /\ Len(api) < MaxApiCalls
    /\ api' = Append(api, [op |-> op, coll |-> coll, fileData |-> NoTranscript,
                           result |-> "pending", log |-> log])

ApiRun(i, log) == api' = [api EXCEPT ![i].log = @ \o log]

ApiAt(i, op, who, endpoint) == api[i].op = op /\ Pending(api[i].log) = <<who, endpoint>>

createItem ==
    /\ UNCHANGED <<fileTranscript, ctlVars>>
    /\ \/ \E c \in Collections : ApiCall("createItem", c, createItemCall(c))
       \/ \E i \in DOMAIN api :
            /\ ApiAt(i, "createItem", "createItem", "apiCreateItem")
            /\ \/ ApiRun(i, createItemThen(api[i].coll))
               \/ ApiRun(i, createItemCatch(api[i].coll))

updateItem ==
    /\ UNCHANGED <<fileTranscript, ctlVars>>
    /\ \/ \E c \in Collections : ApiCall("updateItem", c, updateItemCall(c))
       \/ \E i \in DOMAIN api :
            /\ ApiAt(i, "updateItem", "updateItem", "apiUpdateItem")
            /\ \/ ApiRun(i, updateItemThen(api[i].coll))
               \/ ApiRun(i, updateItemCatch(api[i].coll))

deleteItem ==
    /\ UNCHANGED <<fileTranscript, ctlVars>>
    /\ \/ \E c \in Collections : ApiCall("deleteItem", c, deleteItemCall(c))
       \/ \E i \in DOMAIN api :
            /\ ApiAt(i, "deleteItem", "deleteItem", "dialog")
            /\ \/ ApiRun(i, deleteItemOnConfirm)
               \/ ApiRun(i, deleteItemOnCancel(api[i].coll))
       \/ \E i \in DOMAIN api :
            /\ ApiAt(i, "deleteItem", "deleteItem", "apiDeleteItem")
            /\ \/ ApiRun(i, deleteItemThen(api[i].coll))
               \/ ApiRun(i, deleteItemCatch(api[i].coll))

executeTask ==
    /\ UNCHANGED <<fileTranscript, ctlVars>>
    /\ \/ ApiCall("executeTask", "taskresults", executeTaskCall)
       \/ \E i \in DOMAIN api :
            /\ ApiAt(i, "executeTask", "executeTask", "apiExecuteTask")
            /\ \/ ApiRun(i, executeTaskThen)
               \/ ApiRun(i, executeTaskCatch)

generateChatResponse ==
    /\ UNCHANGED <<fileTranscript, ctlVars>>
    /\ \/ ApiCall("generateChatResponse", "chats", generateChatResponseCall("chat"))
       \/ \E i \in DOMAIN api :
            /\ ApiAt(i, "generateChatResponse", "generateChatResponse", "apiGenerateChatResponse")
            /\ \/ \E result \in BOOLEAN :
                    api' = [api EXCEPT ![i].result = IF result THEN "true" ELSE "false",
                                       ![i].log = @ \o generateChatResponseThen(result)]
               \/ ApiRun(i, generateChatResponseCatch)
       \/ \E i \in DOMAIN api :
            /\ ApiAt(i, "generateChatResponse", "generateChatResponse", "apiFetchItem")
            /\ \/ ApiRun(i, generateChatResponseFetchThen)
               \/ ApiRun(i, generateChatResponseFetchCatch)

sendMessage ==
    /\ UNCHANGED <<fileTranscript, ctlVars>>
    /\ \/ ApiCall("sendMessage", "chats", sendMessageCall("chat"))
       \/ \E i \in DOMAIN api :
            /\ ApiAt(i, "sendMessage", "sendMessage", "apiSendMessage")
            /\ \/ ApiRun(i, sendMessageThen)
               \/ ApiRun(i, sendMessageCatch)

uploadFileContentReference ==
    /\ UNCHANGED <<fileTranscript, ctlVars>>
    /\ \/ ApiCall("uploadFileContentReference", "files", uploadFileContentReferenceCall)
       \/ \E i \in DOMAIN api :
            /\ ApiAt(i, "uploadFileContentReference", "uploadFileContentReference",
                     "apiUploadFileContentReference")
            /\ \/ ApiRun(i, uploadFileContentReferenceThen)
               \/ ApiRun(i, uploadFileContentReferenceCatch)

updateFile ==
    /\ UNCHANGED <<fileTranscript, ctlVars>>
    /\ \/ ApiCall("updateFile", "files", updateFileCall)
       \/ \E i \in DOMAIN api :
            /\ ApiAt(i, "updateFile", "updateFile", "apiUpdateFile")
            /\ \/ ApiRun(i, updateFileThen)
               \/ ApiRun(i, updateFileCatch)

requestFileTranscript ==
    /\ UNCHANGED ctlVars
    /\ \/ /\ ApiCall("requestFileTranscript", "files", requestFileTranscriptCall)
          /\ UNCHANGED fileTranscript
       \/ \E i \in DOMAIN api :
            /\ ApiAt(i, "requestFileTranscript", "requestFileTranscript", "apiFetchItem")
            /\ UNCHANGED fileTranscript
            /\ \/ api' = [api EXCEPT
                            ![i].fileData = fileTranscript,
                            ![i].log = @ \o requestFileTranscriptFetchThen(fileTranscript)]
               \/ ApiRun(i, requestFileTranscriptFetchCatch)
       \/ \E i \in DOMAIN api :
            /\ ApiAt(i, "requestFileTranscript", "requestFileTranscript", "dialog")
            /\ UNCHANGED fileTranscript
            /\ \/ ApiRun(i, requestFileTranscriptOnConfirm)
               \/ ApiRun(i, requestFileTranscriptOnCancel(api[i].fileData))
       \/ \E i \in DOMAIN api :
            /\ ApiAt(i, "requestFileTranscript", "requestFileTranscript",
                     "apiRequestFileTranscript")
            /\ UNCHANGED fileTranscript
            /\ \/ ApiRun(i, requestFileTranscriptThen)
               \/ ApiRun(i, requestFileTranscriptCatch)
       \/ \E i \in DOMAIN api :
            /\ ApiAt(i, "requestFileTranscript", "updateItem", "apiUpdateItem")
            /\ \/ /\ ApiRun(i, requestFileTranscriptUpdateThen(NewTranscript))
                  /\ fileTranscript' = NewTranscript
               \/ /\ ApiRun(i, requestFileTranscriptUpdateCatch)
                  /\ UNCHANGED fileTranscript

updateMessageInChat ==
    /\ UNCHANGED <<fileTranscript, ctlVars>>
    /\ \/ ApiCall("updateMessageInChat", "chats", updateMessageInChatCall)
       \/ \E i \in DOMAIN api :
            /\ ApiAt(i, "updateMessageInChat", "updateMessageInChat", "apiUpdateMessageInChat")
            /\ \/ ApiRun(i, updateMessageInChatThen)
               \/ ApiRun(i, updateMessageInChatCatch)
       \/ \E i \in DOMAIN api :
            /\ ApiAt(i, "updateMessageInChat", "updateMessageInChat", "apiFetchItem")
            /\ \/ ApiRun(i, updateMessageInChatFetchThen)
               \/ ApiRun(i, updateMessageInChatFetchCatch)

purgeAndReinitializeDatabase ==
    /\ UNCHANGED <<fileTranscript, ctlVars>>
    /\ \/ ApiCall("purgeAndReinitializeDatabase", "", purgeAndReinitializeDatabaseCall)
       \/ \E i \in DOMAIN api :
            /\ ApiAt(i, "purgeAndReinitializeDatabase", "purgeAndReinitializeDatabase",
                     "apiPurgeAndReinitializeDatabase")
            /\ \/ ApiRun(i, purgeAndReinitializeDatabaseThen)
               \/ ApiRun(i, purgeAndReinitializeDatabaseCatch)

fetchItem ==
    /\ UNCHANGED <<fileTranscript, ctlVars>>
    /\ \/ \E c \in Collections : ApiCall("fetchItem", c, fetchItemCall(c))
       \/ \E i \in DOMAIN api :
            /\ ApiAt(i, "fetchItem", "fetchItem", "apiFetchItem")
            /\ \/ ApiRun(i, fetchItemThen)
               \/ ApiRun(i, fetchItemCatch)

retrieveFile ==
    /\ UNCHANGED <<fileTranscript, ctlVars>>
    /\ \/ ApiCall("retrieveFile", "files", retrieveFileCall)
       \/ \E i \in DOMAIN api :
            /\ ApiAt(i, "retrieveFile", "retrieveFile", "apiRetrieveFile")
            /\ \/ ApiRun(i, retrieveFileThen)
               \/ ApiRun(i, retrieveFileCatch)

----------------------------------------------------------------------------
\* Chat Session Controller (ChatContext.tsx).

ChatIds == {"A", "B"}
TaskIds == {"task1", "task2"}
NoChat == "null"
NullChat == [id |-> NoChat, messages |-> <<>>, agent |-> "", functions |-> <<>>]

UserHi == [role |-> "user", content |-> "hi"]
AssistantA == [role |-> "assistant", content |-> "a"]
AssistantB == [role |-> "assistant", content |-> "b"]
Messages == {UserHi, AssistantA, AssistantB}

logged(who) == <<"log", who, "error", "">>
setState(who, what) == <<"set", who, what, "">>

\* What fetchItem answers for a whole collection: an array of items or, from
\* a backend that holds one item, the item itself.  A value is kept with what
\* Array.isArray says of it.
Scalar(item) == [array |-> FALSE, value |-> item]
Array(items) == [array |-> TRUE, value |-> items]
Answers == {Scalar("task1"), Array(<<>>), Array(<<"task1">>), Array(<<"task1", "task2">>)}

\* A controller invocation: the operation, where it is suspended, and the
\* values its closure captured from the render it was called in.
CtlInvocation(op, chatId, log) ==
    [op |-> op, currentChatId |-> currentChatId, currentChat |-> NullChat,
     messages |-> <<>>, chatId |-> chatId, message |-> UserHi, taskId |-> "",
     functions |-> <<>>, newMessages |-> <<>>, answer |-> Scalar("undefined"),
     result |-> Scalar("undefined"), log |-> log]

CtlCall(t) ==
    /\ Len(ctl) < MaxCtlCalls
    /\ ctl' = Append(ctl, t)

CtlAt(i, ops, who, endpoint) ==
    ctl[i].op \in ops /\ Pending(ctl[i].log) = <<who, endpoint>>

CtlRun(i, log) == ctl' = [ctl EXCEPT ![i].log = @ \o log]

\* The end of an operation that handleSelectChat / generateResponse was the
\* last statement of: the caller returns as well.
callerReturns(op, callee) ==
    IF op = callee THEN <<>> ELSE <<returned(op, "void")>>

\* fetchChatById: lines 65-73.
fetchChatByIdCall(chatId) ==
    <<called("fetchChatById", chatId), remoteCall("fetchChatById", "fetchItem")>>
fetchChatByIdThen == <<settled("fetchChatById", "fetchItem", "ok"), returned("fetchChatById", "chat")>>
fetchChatByIdCatch ==
    <<settled("fetchChatById", "fetchItem", "err"), logged("fetchChatById"), thrown("fetchChatById")>>

\* What a fetched chat puts in the local state (lines 79-81 and 90-93).
setCurrentChat(chatData) == chatData
setMessagesIfLonger(chatData) ==
    IF Len(chatData.messages) >= Len(messages) THEN chatData.messages ELSE messages
setMessages(chatData) == chatData.messages
setAgentsAppended(chatData) == Append(agents, chatData.agent)
setAgents(chatData) == <<chatData.agent>>

\* handleSelectChat: lines 87-97.
handleSelectChatCall(chatId) == <<called("handleSelectChat", chatId)>> \o fetchChatByIdCall(chatId)
handleSelectChatThen ==
    fetchChatByIdThen
    \o <<setState("handleSelectChat", "currentChat"), setState("handleSelectChat", "messages"),
         setState("handleSelectChat", "currentChatId"), setState("handleSelectChat", "agents"),
         returned("handleSelectChat", "void")>>
handleSelectChatCatch ==
    fetchChatByIdCatch \o <<logged("handleSelectChat"), returned("handleSelectChat", "void")>>

handleSelectChat ==
    /\ UNCHANGED <<api, fileTranscript, chats, pastChats, isGenerating>>
    /\ \/ /\ \E chatId \in ChatIds :
               CtlCall(CtlInvocation("handleSelectChat", chatId, handleSelectChatCall(chatId)))
          /\ UNCHANGED <<messages, currentChatId, agents, currentChat>>
       \/ \E i \in DOMAIN ctl :
            /\ CtlAt(i, {"handleSelectChat", "addTaskToChat"}, "fetchChatById", "fetchItem")
            /\ \/ /\ CtlRun(i, handleSelectChatThen
                               \o callerReturns(ctl[i].op, "handleSelectChat"))
                  /\ currentChat' = setCurrentChat(chats[ctl[i].chatId])
                  /\ messages' = setMessages(chats[ctl[i].chatId])
                  /\ currentChatId' = ctl[i].chatId
                  /\ agents' = setAgents(chats[ctl[i].chatId])
               \/ /\ CtlRun(i, handleSelectChatCatch
                               \o callerReturns(ctl[i].op, "handleSelectChat"))
                  /\ UNCHANGED <<messages, currentChatId, agents, currentChat>>

\* generateResponse: lines 109-122; fetchCurrentChat: lines 75-85.
generateResponseCall(chatId) ==
    IF chatId = NoChat
    THEN <<called("generateResponse", chatId), returned("generateResponse", "void")>>
    ELSE <<called("generateResponse", chatId), setState("generateResponse", "isGenerating=true")>>
         \o generateChatResponseCall(chatId)
generateResponseFinally ==
    <<setState("generateResponse", "isGenerating=false"), returned("generateResponse", "void")>>
generateResponseCatch == <<logged("generateResponse")>> \o generateResponseFinally
fetchCurrentChatCall(chatId) ==
    IF chatId = NoChat
    THEN <<called("fetchCurrentChat", chatId), returned("fetchCurrentChat", "void")>>
    ELSE <<called("fetchCurrentChat", chatId)>> \o fetchChatByIdCall(chatId)
fetchCurrentChatThen ==
    fetchChatByIdThen
    \o <<setState("fetchCurrentChat", "currentChat"), setState("fetchCurrentChat", "messages"),
         setState("fetchCurrentChat", "agents"), returned("fetchCurrentChat", "void")>>
fetchCurrentChatCatch ==
    fetchChatByIdCatch \o <<logged("fetchCurrentChat"), returned("fetchCurrentChat", "void")>>

\* What generateResponse leaves in isGenerating when it starts / when it ends.
isGeneratingOnCall(chatId) == IF chatId = NoChat THEN isGenerating ELSE TRUE
isGeneratingFinallyKept == isGenerating
isGeneratingFinally == FALSE

GenOps == {"generateResponse", "handleSendMessage", "handleRegenerateResponse"}

\* generateResponse called by a component.
generateResponse ==
    /\ UNCHANGED <<api, fileTranscript, pastChats, currentChatId>>
    /\ CtlCall(CtlInvocation("generateResponse", currentChatId,
                             generateResponseCall(currentChatId)))
    /\ isGenerating' = isGeneratingOnCall(currentChatId)
    /\ UNCHANGED <<chats, messages, agents, currentChat>>

\* generateResponse from its remote call on, whoever called it.
generateResponseSettles ==
    /\ UNCHANGED <<api, fileTranscript, pastChats, currentChatId>>
    /\ \/ \E i \in DOMAIN ctl :
            /\ CtlAt(i, GenOps, "generateChatResponse", "apiGenerateChatResponse")
            /\ UNCHANGED <<messages, agents, currentChat>>
            /\ \/ /\ Len(chats[ctl[i].currentChatId].messages) < MaxMsgs
                  /\ chats' = [chats EXCEPT ![ctl[i].currentChatId].messages =
                                                Append(@, AssistantA)]
                  /\ CtlRun(i, generateChatResponseThen(TRUE))
                  /\ UNCHANGED isGenerating
               \/ /\ CtlRun(i, generateChatResponseThen(FALSE)
                               \o generateResponseFinally
                               \o callerReturns(ctl[i].op, "generateResponse"))
                  /\ isGenerating' = isGeneratingFinally
                  /\ UNCHANGED chats
               \/ /\ CtlRun(i, generateChatResponseCatch
                               \o generateResponseCatch
                               \o callerReturns(ctl[i].op, "generateResponse"))
                  /\ isGenerating' = isGeneratingFinally
                  /\ UNCHANGED chats
       \/ \E i \in DOMAIN ctl :
            /\ CtlAt(i, GenOps, "generateChatResponse", "apiFetchItem")
            /\ UNCHANGED <<chats, messages, agents, currentChat>>
            /\ \/ /\ CtlRun(i, generateChatResponseFetchThen
                               \o fetchCurrentChatCall(ctl[i].currentChatId))
                  /\ UNCHANGED isGenerating
               \/ /\ CtlRun(i, generateChatResponseFetchCatch
                               \o generateResponseCatch
                               \o callerReturns(ctl[i].op, "generateResponse"))
                  /\ isGenerating' = isGeneratingFinally
       \/ \E i \in DOMAIN ctl :
            /\ CtlAt(i, GenOps, "fetchChatById", "fetchItem")
            /\ UNCHANGED chats
            /\ isGenerating' = isGeneratingFinally
            /\ \/ /\ CtlRun(i, fetchCurrentChatThen
                               \o generateResponseFinally
                               \o callerReturns(ctl[i].op, "generateResponse"))
                  /\ currentChat' = setCurrentChat(chats[ctl[i].currentChatId])
                  /\ messages' = setMessages(chats[ctl[i].currentChatId])
                  /\ agents' = setAgents(chats[ctl[i].currentChatId])
               \/ /\ CtlRun(i, fetchCurrentChatCatch
                               \o generateResponseFinally
                               \o callerReturns(ctl[i].op, "generateResponse"))
                  /\ UNCHANGED <<messages, agents, currentChat>>

\* handleSendMessage: lines 99-107.
handleSendMessageCall(chatId) == <<called("handleSendMessage", chatId)>> \o sendMessageCall(chatId)
handleSendMessageThen(chatId) ==
    sendMessageThen
    \o <<setState("handleSendMessage", "messages")>>
    \o generateResponseCall(chatId)
    \o (IF chatId = NoChat THEN <<returned("handleSendMessage", "void")>> ELSE <<>>)
handleSendMessageCatchGenerates ==
    sendMessageCatch
    \o <<logged("handleSendMessage"), called("generateResponse", NoChat),
         returned("generateResponse", "void"), returned("handleSendMessage", "void")>>
handleSendMessageCatch ==
    sendMessageCatch \o <<logged("handleSendMessage"), returned("handleSendMessage", "void")>>
\* setMessages(prevMessages => [...prevMessages, message])
appendMessage(prevMessages, message) == Append(prevMessages, message)

handleSendMessage ==
    /\ UNCHANGED <<api, fileTranscript, pastChats, currentChatId, agents, currentChat>>
    /\ \/ /\ \E chatId \in ChatIds :
               CtlCall(CtlInvocation("handleSendMessage", chatId, handleSendMessageCall(chatId)))
          /\ UNCHANGED <<chats, messages, isGenerating>>
       \/ \E i \in DOMAIN ctl :
            /\ CtlAt(i, {"handleSendMessage"}, "sendMessage", "apiSendMessage")
            /\ \/ /\ Len(chats[ctl[i].chatId].messages) < MaxMsgs
                  /\ chats' = [chats EXCEPT ![ctl[i].chatId].messages = Append(@, ctl[i].message)]
                  /\ messages' = appendMessage(messages, ctl[i].message)
                  /\ isGenerating' = isGeneratingOnCall(ctl[i].currentChatId)
                  /\ CtlRun(i, handleSendMessageThen(ctl[i].currentChatId))
               \/ /\ CtlRun(i, handleSendMessageCatch)
                  /\ UNCHANGED <<chats, messages, isGenerating>>

\* handleRegenerateResponse: lines 124-137.
trimLastOnly(newMessages) ==
    IF Len(newMessages) > 0 /\ newMessages[Len(newMessages)].role # "user"
    THEN SubSeq(newMessages, 1, Len(newMessages) - 1)
    ELSE newMessages
RECURSIVE trimToLastUser(_)
trimToLastUser(newMessages) ==
    IF Len(newMessages) > 0 /\ newMessages[Len(newMessages)].role # "user"
    THEN trimToLastUser(SubSeq(newMessages, 1, Len(newMessages) - 1))
    ELSE newMessages

handleRegenerateResponseCall(chatId) ==
    IF chatId = NoChat
    THEN <<called("handleRegenerateResponse", chatId), returned("handleRegenerateResponse", "void")>>
    ELSE <<called("handleRegenerateResponse", chatId)>> \o updateItemCall("chats")
handleRegenerateResponseThen(chatId) ==
    updateItemThen("chats")
    \o <<setState("handleRegenerateResponse", "messages")>>
    \o generateResponseCall(chatId)
handleRegenerateResponseCatch ==
    updateItemCatch("chats")
    \o <<logged("handleRegenerateResponse"), returned("handleRegenerateResponse", "void")>>

handleRegenerateResponse ==
    /\ UNCHANGED <<api, fileTranscript, pastChats, currentChatId, agents, currentChat>>
    /\ \/ /\ CtlCall([CtlInvocation("handleRegenerateResponse", currentChatId,
                                    handleRegenerateResponseCall(currentChatId))
                      EXCEPT !.messages = messages,
                             !.newMessages = IF currentChatId = NoChat THEN <<>>
                                             ELSE trimToLastUser(messages)])
          /\ UNCHANGED <<chats, messages, isGenerating>>
       \/ \E i \in DOMAIN ctl :
            /\ CtlAt(i, {"handleRegenerateResponse"}, "updateItem", "apiUpdateItem")
            /\ \/ /\ chats' = [chats EXCEPT ![ctl[i].currentChatId].messages = ctl[i].newMessages]
                  /\ messages' = ctl[i].newMessages
                  /\ isGenerating' = isGeneratingOnCall(ctl[i].currentChatId)
                  /\ CtlRun(i, handleRegenerateResponseThen(ctl[i].currentChatId))
               \/ /\ CtlRun(i, handleRegenerateResponseCatch)
                  /\ UNCHANGED <<chats, messages, isGenerating>>

\* isTaskInChat: lines 138-140.
isTaskInChatNever(chat, taskId) == FALSE
isTaskInChat(chat, taskId) ==
    /\ chat.id # NoChat
    /\ \E k \in DOMAIN chat.functions : chat.functions[k] = taskId

\* addTaskToChat: lines 142-156.
addTaskToChatCall(chatId, chat) ==
    IF chatId = NoChat \/ chat.id = NoChat
    THEN <<called("addTaskToChat", chatId), returned("addTaskToChat", "void")>>
    ELSE <<called("addTaskToChat", chatId), remoteCall("addTaskToChat", "fetchItem")>>
addTaskToChatFetchThen(chat, taskId, found) ==
    <<settled("addTaskToChat", "fetchItem", "ok")>>
    \o (IF ~found THEN <<logged("addTaskToChat"), returned("addTaskToChat", "void")>>
        ELSE IF isTaskInChat(chat, taskId)
             THEN <<logged("addTaskToChat"), returned("addTaskToChat", "void")>>
             ELSE updateItemCall("chats"))
addTaskToChatFetchCatch ==
    <<settled("addTaskToChat", "fetchItem", "err"), logged("addTaskToChat"),
      returned("addTaskToChat", "void")>>
addTaskToChatThen(chatId) == updateItemThen("chats") \o handleSelectChatCall(chatId)
addTaskToChatCatch ==
    updateItemCatch("chats") \o <<logged("addTaskToChat"), returned("addTaskToChat", "void")>>
updatedFunctions(functions, task) == Append(functions, task)

addTaskToChat ==
    /\ UNCHANGED <<api, fileTranscript, messages, pastChats, currentChatId, agents,
                   isGenerating, currentChat>>
    /\ \/ /\ \E taskId \in TaskIds :
               CtlCall([CtlInvocation("addTaskToChat", currentChatId,
                                      addTaskToChatCall(currentChatId, currentChat))
                        EXCEPT !.taskId = taskId, !.currentChat = currentChat])
          /\ UNCHANGED chats
       \/ \E i \in DOMAIN ctl :
            /\ CtlAt(i, {"addTaskToChat"}, "addTaskToChat", "fetchItem")
            /\ UNCHANGED chats
            /\ \/ \E found \in BOOLEAN :
                    LET log == addTaskToChatFetchThen(ctl[i].currentChat, ctl[i].taskId, found)
                    IN  ctl' = [ctl EXCEPT
                                  ![i].functions =
                                      IF Pending(log) = <<"updateItem", "apiUpdateItem">>
                                      THEN updatedFunctions(ctl[i].currentChat.functions,
                                                            ctl[i].taskId)
                                      ELSE @,
                                  ![i].log = @ \o log]
               \/ CtlRun(i, addTaskToChatFetchCatch)
       \/ \E i \in DOMAIN ctl :
            /\ CtlAt(i, {"addTaskToChat"}, "updateItem", "apiUpdateItem")
            /\ \/ /\ chats' = [chats EXCEPT ![ctl[i].currentChatId].functions = ctl[i].functions]
                  /\ CtlRun(i, addTaskToChatThen(ctl[i].currentChatId))
               \/ /\ CtlRun(i, addTaskToChatCatch)
                  /\ UNCHANGED chats

\* fetchChats: lines 50-57.
fetchChatsCall == <<called("fetchChats", ""), remoteCall("fetchChats", "fetchItem")>>
fetchChatsThen ==
    <<settled("fetchChats", "fetchItem", "ok"), setState("fetchChats", "pastChats"),
      returned("fetchChats", "void")>>
fetchChatsCatch ==
    <<settled("fetchChats", "fetchItem", "err"), logged("fetchChats"),
      returned("fetchChats", "void")>>
\* fetchItem('chats'): every chat the backend holds.
setPastChats(allChats) == <<allChats["A"], allChats["B"]>>

fetchChats ==
    /\ UNCHANGED <<api, fileTranscript, chats, messages, currentChatId, agents,
                   isGenerating, currentChat>>
    /\ \/ /\ CtlCall(CtlInvocation("fetchChats", NoChat, fetchChatsCall))
          /\ UNCHANGED pastChats
       \/ \E i \in DOMAIN ctl :
            /\ CtlAt(i, {"fetchChats"}, "fetchChats", "fetchItem")
            /\ \/ /\ CtlRun(i, fetchChatsThen)
                  /\ pastChats' = setPastChats(chats)
               \/ /\ CtlRun(i, fetchChatsCatch)
                  /\ UNCHANGED pastChats

\* fetchAvailableTasks: lines 158-166; fetchAvailableTaskResults: lines 168-176.
\* Array.isArray(tasks) ? tasks : [tasks]
toArrayAsIs(tasks) == tasks
toArray(tasks) == IF tasks.array THEN tasks ELSE Array(<<tasks.value>>)

fetchAvailableCall(op) == <<called(op, ""), remoteCall(op, "fetchItem")>>
fetchAvailableThen(op) == <<settled(op, "fetchItem", "ok"), returned(op, "array")>>
fetchAvailableCatchRethrow(op) == <<settled(op, "fetchItem", "err"), logged(op), thrown(op)>>
fetchAvailableCatch(op) == <<settled(op, "fetchItem", "err"), logged(op), returned(op, "array")>>

fetchAvailable(op) ==
    /\ UNCHANGED <<api, fileTranscript, chats, messages, pastChats, currentChatId, agents,
                   isGenerating, currentChat>>
    /\ \/ CtlCall(CtlInvocation(op, NoChat, fetchAvailableCall(op)))
       \/ \E i \in DOMAIN ctl :
            /\ CtlAt(i, {op}, op, "fetchItem")
            /\ \/ \E tasks \in Answers :
                    ctl' = [ctl EXCEPT ![i].answer = tasks,
                                       ![i].result = toArray(tasks),
                                       ![i].log = @ \o fetchAvailableThen(op)]
               \/ ctl' = [ctl EXCEPT ![i].result = Array(<<>>),
                                     ![i].log = @ \o fetchAvailableCatch(op)]

fetchAvailableTasks == fetchAvailable("fetchAvailableTasks")
fetchAvailableTaskResults == fetchAvailable("fetchAvailableTaskResults")

----------------------------------------------------------------------------
\* State after construction, and the specifications.

InitialChats ==
    [c \in ChatIds |->
        [id |-> c,
         messages |-> IF c = "A" THEN <<UserHi, AssistantA>> ELSE <<>>,
         agent |-> c,
         functions |-> IF c = "A" THEN <<>> ELSE <<"task1">>]]

\* The controller as constructed (line 42-47), or with a chat selected and
\* loaded, as a completed handleSelectChat leaves it.
Constructed ==
    /\ messages = <<>>
    /\ currentChatId = NoChat
    /\ agents = <<>>
    /\ currentChat = NullChat

Selected(chatId) ==
    /\ messages = chats[chatId].messages
    /\ currentChatId = chatId
    /\ agents = <<chats[chatId].agent>>
    /\ currentChat = chats[chatId]

InitCtl ==
    /\ ctl = <<>>
    /\ chats = InitialChats
    /\ pastChats = <<>>
    /\ isGenerating = FALSE

InitApi ==
    /\ api = <<>>
    /\ fileTranscript \in {NoTranscript, OldTranscript}
    /\ InitCtl
    /\ Constructed

InitChat ==
    /\ api = <<>>
    /\ fileTranscript = NoTranscript
    /\ InitCtl
    /\ (Constructed \/ Selected("A"))

NextApi ==
    \/ createItem
    \/ updateItem
    \/ deleteItem
    \/ executeTask
    \/ generateChatResponse
    \/ sendMessage
    \/ uploadFileContentReference
    \/ updateFile
    \/ requestFileTranscript
    \/ updateMessageInChat
    \/ purgeAndReinitializeDatabase
    \/ fetchItem
    \/ retrieveFile

\* The API Facade, called by components.
SpecApi == InitApi /\ [][NextApi]_vars

\* Every message sequence of at most MaxMsgs messages.
MessageSeqs == UNION {[1..n -> Messages] : n \in 0..MaxMsgs}

\* handleRegenerateResponse on a selected chat that holds any message sequence.
InitRegenerate ==
    /\ api = <<>>
    /\ fileTranscript = NoTranscript
    /\ ctl = <<>>
    /\ \E ms \in MessageSeqs : chats = [InitialChats EXCEPT !["A"].messages = ms]
    /\ pastChats = <<>>
    /\ isGenerating = FALSE
    /\ Selected("A")

NextRegenerate ==
    \/ handleRegenerateResponse
    \/ generateResponseSettles

SpecRegenerate == InitRegenerate /\ [][NextRegenerate]_vars

NextChat ==
    \/ handleSelectChat
    \/ handleSendMessage
    \/ generateResponse
    \/ generateResponseSettles
    \/ handleRegenerateResponse
    \/ addTaskToChat

\* The Chat Session Controller over the API Facade.
SpecChat == InitChat /\ [][NextChat]_vars

\* The same, where every remote call of a generateResponse settles in the end.
SpecChatFair == InitChat /\ [][NextChat]_vars /\ WF_vars(generateResponseSettles)

\* The operations that only read collections.
NextFetch ==
    \/ fetchChats
    \/ fetchAvailableTasks
    \/ fetchAvailableTaskResults

SpecFetch == InitChat /\ [][NextFetch]_vars

\* Every operation of the Chat Session Controller.
NextController ==
    \/ NextChat
    \/ NextFetch

SpecController == InitChat /\ [][NextController]_vars

----------------------------------------------------------------------------
\* Reading a log.

By(log, who) == SelectSeq(log, LAMBDA e : e[2] = who)
Where(log, kind) == {k \in DOMAIN log : log[k][1] = kind}
Has(log, entry) == \E k \in DOMAIN log : log[k] = entry
Settles(log, op) == {k \in DOMAIN log : log[k][1] \in {"return", "throw"} /\ log[k][2] = op}
Logs == {api[i].log : i \in DOMAIN api} \cup {ctl[i].log : i \in DOMAIN ctl}

----------------------------------------------------------------------------
\* API Facade claims, under SpecApi.

\* A call of createItem / updateItem (who) whose remote call resolved shows
\* one success notification, then publishes one event <eventType>:<collection>,
\* then returns, and shows or publishes nothing else.
OneNotificationThenOneEvent(log, who, endpoint, eventType) ==
    LET sub == By(log, who)
        N == Where(sub, "notify")
        E == Where(sub, "emit")
        R == Settles(sub, who)
    IN  Has(sub, settled(who, endpoint, "ok")) =>
          /\ Cardinality(N) = 1
          /\ Cardinality(E) = 1
          /\ Cardinality(R) = 1
          /\ \A n \in N, e \in E, r \in R :
                /\ sub[n] = addNotification(who, "success")
                /\ sub[e] = emitEvent(who, eventType, sub[1][3])
                /\ sub[r][1] = "return"
                /\ n < e
                /\ e < r

\* C1: every createItem or updateItem call whose remote create/update resolves
\* shows exactly one success Notification and publishes exactly one event
\* (created:<collection> resp. updated:<collection>), the notification before
\* the publish and both before the returned promise resolves.
C1_OneNotificationOneEvent ==
    \A log \in Logs :
        /\ OneNotificationThenOneEvent(log, "createItem", "apiCreateItem", "created")
        /\ OneNotificationThenOneEvent(log, "updateItem", "apiUpdateItem", "updated")

C1_Witness ==
    \E i, j \in DOMAIN api :
        /\ api[i].op = "createItem" /\ Outcome(api[i]) = "item"
        /\ api[j].op = "updateItem" /\ Outcome(api[j]) = "item"

\* C2: deleteItem resolves true if and only if the user confirmed and the
\* remote delete succeeded; otherwise it resolves false; it never rejects.
C2_DeleteResolvesTrueIff ==
    \A i \in DOMAIN api :
        api[i].op = "deleteItem" /\ Done(api[i]) =>
            /\ Outcome(api[i]) \in {"true", "false"}
            /\ Outcome(api[i]) = "true" <=>
                  /\ Has(api[i].log, dialogChoice("deleteItem", "confirm"))
                  /\ Has(api[i].log, settled("deleteItem", "apiDeleteItem", "ok"))

C2_Witness ==
    \E i, j \in DOMAIN api :
        /\ api[i].op = "deleteItem" /\ Outcome(api[i]) = "true"
        /\ api[j].op = "deleteItem" /\ Outcome(api[j]) = "false"
        /\ Has(api[j].log, settled("deleteItem", "apiDeleteItem", "err"))

\* C3: deleteItem issues the remote delete only after the dialog's confirm
\* handler fired for that invocation; when the user cancels, no remote call is
\* made and the only notification is an informational one.
C3_DeleteOnlyAfterConfirm ==
    \A i \in DOMAIN api :
        api[i].op = "deleteItem" =>
            LET log == api[i].log
            IN  /\ \A k \in Where(log, "remote") :
                      \E j \in 1..(k - 1) : log[j] = dialogChoice("deleteItem", "confirm")
                /\ Has(log, dialogChoice("deleteItem", "cancel")) =>
                      /\ Where(log, "remote") = {}
                      /\ Cardinality(Where(log, "notify")) = 1
                      /\ \A n \in Where(log, "notify") : log[n][3] = "info"

C3_Witness ==
    \E i, j \in DOMAIN api :
        /\ api[i].op = "deleteItem" /\ Has(api[i].log, dialogChoice("deleteItem", "cancel"))
        /\ api[j].op = "deleteItem" /\ Has(api[j].log, remoteCall("deleteItem", "apiDeleteItem"))

\* C4: requestFileTranscript on a file that already has a transcript calls the
\* remote transcription endpoint only after the user chose "Generate New".
C4_TranscribeOnlyOnGenerateNew ==
    \A i \in DOMAIN api :
        api[i].op = "requestFileTranscript" /\ api[i].fileData # NoTranscript =>
            \A k \in DOMAIN api[i].log :
                api[i].log[k] = remoteCall("requestFileTranscript", "apiRequestFileTranscript") =>
                    \E j \in 1..(k - 1) :
                        api[i].log[j] = dialogChoice("requestFileTranscript", "confirm")

C4_Witness ==
    \E i, j \in DOMAIN api :
        /\ api[i].op = "requestFileTranscript" /\ api[i].fileData # NoTranscript
        /\ Has(api[i].log, dialogChoice("requestFileTranscript", "cancel"))
        /\ api[j].op = "requestFileTranscript" /\ api[j].fileData # NoTranscript
        /\ Has(api[j].log, remoteCall("requestFileTranscript", "apiRequestFileTranscript"))

\* The parts of the ordering contract.
NotificationsAfterRemote(log) ==
    \A n \in Where(log, "notify") :
        log[n][3] # "info" => \E s \in Where(log, "settle") : s < n
NotificationsBeforeEvents(log) ==
    \A n \in Where(log, "notify"), e \in Where(log, "emit") : n < e
EventsBeforeSettling(log, op) ==
    \A e \in Where(log, "emit"), r \in Settles(log, op) : e < r

\* C9 as stated: for every API Facade operation, every notification of an
\* invocation is issued after the remote call resolves and before any event
\* of that invocation is published, and every event is published before the
\* returned promise settles.
C9_AsStated ==
    \A i \in DOMAIN api :
        /\ NotificationsAfterRemote(api[i].log)
        /\ NotificationsBeforeEvents(api[i].log)
        /\ EventsBeforeSettling(api[i].log, api[i].op)

\* C9 amended: every success or error notification follows the settling of a
\* remote call of the invocation, and every event precedes the settling of
\* the returned promise; every notification precedes every event of the
\* invocation for all operations but requestFileTranscript and
\* updateMessageInChat, and in every operation a function's success
\* notification precedes the events that function publishes.
C9_Ordering ==
    \A i \in DOMAIN api :
        LET log == api[i].log
        IN  /\ NotificationsAfterRemote(log)
            /\ EventsBeforeSettling(log, api[i].op)
            /\ api[i].op \notin {"requestFileTranscript", "updateMessageInChat"} =>
                  NotificationsBeforeEvents(log)
            /\ \A n \in Where(log, "notify"), e \in Where(log, "emit") :
                  log[n][3] = "success" /\ log[n][2] = log[e][2] => n < e

C9_Witness ==
    \E i, j \in DOMAIN api :
        /\ api[i].op = "requestFileTranscript" /\ Outcome(api[i]) = NewTranscript
        /\ api[j].op = "updateMessageInChat" /\ Outcome(api[j]) = "rejected"
        /\ Where(api[j].log, "emit") # {}

\* A failed remote call is followed by an error notification and then by the
\* rejection of the operation's promise.
FailureNotifiedThenRaised(t) ==
    \A k \in Where(t.log, "settle") :
        t.log[k][4] = "err" =>
            /\ Outcome(t) = "rejected"
            /\ \E n \in Where(t.log, "notify") :
                  /\ k < n
                  /\ t.log[n][3] = "error"
                  /\ \A r \in Settles(t.log, t.op) : n < r

\* C10 as stated: every operation except deleteItem, when a remote call it
\* makes fails, shows an error Notification and then rejects.
C10_AsStated ==
    \A i \in DOMAIN api :
        api[i].op # "deleteItem" => FailureNotifiedThenRaised(api[i])

\* C10 amended: every operation except deleteItem, fetchItem and retrieveFile,
\* when a remote call it makes fails, shows an error Notification and then
\* rejects; fetchItem and retrieveFile reject without any notification.
C10_FailureNotifiedThenRaised ==
    \A i \in DOMAIN api :
        /\ api[i].op \notin {"deleteItem", "fetchItem", "retrieveFile"} =>
              FailureNotifiedThenRaised(api[i])
        /\ api[i].op \in {"fetchItem", "retrieveFile"} =>
              /\ Where(api[i].log, "notify") = {}
              /\ \A k \in Where(api[i].log, "settle") :
                    api[i].log[k][4] = "err" => Outcome(api[i]) = "rejected"

C10_Witness ==
    \E i, j \in DOMAIN api :
        /\ api[i].op = "sendMessage" /\ Outcome(api[i]) = "rejected"
        /\ api[j].op = "fetchItem" /\ Outcome(api[j]) = "rejected"

----------------------------------------------------------------------------
\* Chat Session Controller claims.

\* Invocation i runs in this step (it is called, or a remote call of it settles).
Runs(i) == i \notin DOMAIN ctl \/ ctl'[i].log # ctl[i].log
\* Invocation i is suspended on this remote call before the step.
Awaits(i, who, endpoint) == i \in DOMAIN ctl /\ Pending(ctl[i].log) = <<who, endpoint>>
Calls(log, callee) == {k \in DOMAIN log : log[k][1] = "call" /\ log[k][2] = callee}

\* In the log of a handleSendMessage: no append and no generateResponse after
\* a rejected send; the append after the send returned; generateResponse
\* after the append.
SendThenAppendThenGenerate(log) ==
    /\ Has(log, settled("sendMessage", "apiSendMessage", "err")) =>
          /\ ~Has(log, setState("handleSendMessage", "messages"))
          /\ Calls(log, "generateResponse") = {}
    /\ \A k \in DOMAIN log :
          log[k] = setState("handleSendMessage", "messages") =>
              \E j \in 1..(k - 1) : log[j] = returned("sendMessage", "chat")
    /\ \A k \in Calls(log, "generateResponse") :
          \E j \in 1..(k - 1) : log[j] = setState("handleSendMessage", "messages")

\* What a step of a handleSendMessage does to the local message sequence and
\* to the generation flag.
SendStep(i) ==
    /\ i \notin DOMAIN ctl => messages' = messages /\ isGenerating' = isGenerating
    /\ Awaits(i, "sendMessage", "apiSendMessage") =>
          IF Has(ctl'[i].log, settled("sendMessage", "apiSendMessage", "err"))
          THEN /\ messages' = messages
               /\ Len(messages') = Len(messages)
               /\ isGenerating' = isGenerating
               /\ Done(ctl'[i])
          ELSE messages' = Append(messages, ctl[i].message)

\* C5: handleSendMessage: if the remote send rejects, the local message
\* sequence is unchanged and generateResponse is not invoked; the message is
\* appended locally only after the remote send has resolved, and generation is
\* triggered only after that append.
C5_SendFailureLeavesMessages ==
    /\ [](\A i \in DOMAIN ctl :
            ctl[i].op = "handleSendMessage" => SendThenAppendThenGenerate(ctl[i].log))
    /\ [][\A i \in DOMAIN ctl' :
            ctl'[i].op = "handleSendMessage" /\ Runs(i) => SendStep(i)]_vars

C5_Witness ==
    \E i, j \in DOMAIN ctl :
        /\ ctl[i].op = "handleSendMessage"
        /\ Has(ctl[i].log, settled("sendMessage", "apiSendMessage", "err"))
        /\ ctl[j].op = "handleSendMessage"
        /\ Has(ctl[j].log, settled("sendMessage", "apiSendMessage", "ok"))
        /\ Calls(ctl[j].log, "generateResponse") # {}

\* A generateResponse that passed its guard and has not ended.
Generating(t) ==
    Has(t.log, setState("generateResponse", "isGenerating=true")) /\ ~Done(t)
GenerateExit(log) ==
    IF Has(log, settled("fetchChatById", "fetchItem", "ok")) THEN "refetched"
    ELSE IF Has(log, settled("fetchChatById", "fetchItem", "err")) THEN "refetch failed"
    ELSE IF Has(log, settled("generateChatResponse", "apiFetchItem", "err")) THEN "rejected"
    ELSE IF Has(log, settled("generateChatResponse", "apiGenerateChatResponse", "err"))
         THEN "rejected"
    ELSE IF Has(log, returned("generateChatResponse", "false")) THEN "falsy"
    ELSE "none"

\* C6: generateResponse leaves isGenerating equal to false when it settles, on
\* every exit path (the generation resolves truthy, resolves falsy, rejects, or
\* the chat re-fetch fails); with no generateResponse under way the flag is
\* false.
C6_IsGeneratingFalseAfterSettling ==
    /\ []((\A i \in DOMAIN ctl : ~Generating(ctl[i])) => isGenerating = FALSE)
    /\ [][\A i \in DOMAIN ctl :
            Generating(ctl[i]) /\ Done(ctl'[i]) =>
                /\ isGenerating' = FALSE
                /\ GenerateExit(ctl'[i].log) # "none"
                /\ Has(ctl'[i].log, setState("generateResponse", "isGenerating=false"))]_vars

C6_Witness ==
    \E i, j \in DOMAIN ctl :
        /\ Done(ctl[i]) /\ GenerateExit(ctl[i].log) = "refetch failed"
        /\ Done(ctl[j]) /\ GenerateExit(ctl[j].log) = "rejected"
        /\ isGenerating = FALSE

\* The longest prefix of a message sequence that is empty or ends with a
\* message of role "user".
LongestUserPrefix(ms) ==
    LET K == {k \in 0..Len(ms) : k = 0 \/ ms[k].role = "user"}
    IN  SubSeq(ms, 1, CHOOSE k \in K : \A l \in K : l <= k)

\* C7: handleRegenerateResponse persists exactly the longest prefix of the
\* local message sequence whose last element has role "user" (the empty
\* sequence if there is none), and persists it before it calls
\* generateResponse.
C7_RegeneratePersistsUserPrefix ==
    /\ [](\A i \in DOMAIN ctl :
            ctl[i].op = "handleRegenerateResponse" /\ ctl[i].currentChatId # NoChat =>
                /\ ctl[i].newMessages = LongestUserPrefix(ctl[i].messages)
                /\ \A k \in Calls(ctl[i].log, "generateResponse") :
                      \E j \in 1..(k - 1) :
                          ctl[i].log[j] = settled("updateItem", "apiUpdateItem", "ok"))
    /\ [][\A i \in DOMAIN ctl' :
            ctl'[i].op = "handleRegenerateResponse" /\ Runs(i) =>
                /\ i \notin DOMAIN ctl =>
                      /\ ctl'[i].messages = messages
                      /\ chats' = chats
                /\ (/\ Awaits(i, "updateItem", "apiUpdateItem")
                    /\ Has(ctl'[i].log, settled("updateItem", "apiUpdateItem", "ok"))) =>
                      /\ chats'[ctl[i].currentChatId].messages = LongestUserPrefix(ctl[i].messages)
                      /\ messages' = LongestUserPrefix(ctl[i].messages)
                      /\ Calls(ctl'[i].log, "generateResponse") # {}]_vars

C7_Witness ==
    \E i \in DOMAIN ctl :
        /\ ctl[i].op = "handleRegenerateResponse"
        /\ ctl[i].messages = <<UserHi, AssistantA, AssistantB>>
        /\ ctl[i].newMessages = <<UserHi>>
        /\ chats["A"].messages = <<UserHi>>
        /\ Calls(ctl[i].log, "generateResponse") # {}

Occurrences(functions, taskId) ==
    Cardinality({k \in DOMAIN functions : functions[k] = taskId})

\* C8: addTaskToChat is idempotent: a task never appears more than once in
\* currentChat.functions or in a functions list the backend holds; the list an
\* addTaskToChat persists holds its task exactly once; and an addTaskToChat
\* whose currentChat already holds the task persists nothing.
C8_AddTaskIdempotent ==
    /\ [](/\ \A t \in TaskIds :
               /\ Occurrences(currentChat.functions, t) <= 1
               /\ \A c \in ChatIds : Occurrences(chats[c].functions, t) <= 1
          /\ \A i \in DOMAIN ctl :
               /\ ctl[i].op = "addTaskToChat"
               /\ Occurrences(ctl[i].currentChat.functions, ctl[i].taskId) > 0
               => ~Has(ctl[i].log, remoteCall("updateItem", "apiUpdateItem")))
    /\ [][\A i \in DOMAIN ctl :
            /\ ctl[i].op = "addTaskToChat"
            /\ Awaits(i, "updateItem", "apiUpdateItem")
            /\ Has(ctl'[i].log, settled("updateItem", "apiUpdateItem", "ok"))
            => Occurrences(chats'[ctl[i].currentChatId].functions, ctl[i].taskId) = 1]_vars

C8_Witness ==
    \E i, j \in DOMAIN ctl :
        /\ i < j
        /\ ctl[i].op = "addTaskToChat" /\ ctl[j].op = "addTaskToChat"
        /\ ctl[i].taskId = ctl[j].taskId
        /\ Done(ctl[i]) /\ Done(ctl[j])
        /\ Has(ctl[i].log, setState("handleSelectChat", "currentChat"))
        /\ Has(ctl[j].log, settled("addTaskToChat", "fetchItem", "ok"))
        /\ Occurrences(ctl[j].currentChat.functions, ctl[j].taskId) = 1
        /\ Occurrences(currentChat.functions, ctl[i].taskId) = 1
        /\ Occurrences(chats[currentChatId].functions, ctl[i].taskId) = 1

----------------------------------------------------------------------------
\* The operations of the Chat Session Controller that change the chat.
MutatingOps ==
    {"handleSendMessage", "generateResponse", "handleRegenerateResponse", "addTaskToChat"}

\* An invocation that issues no remote call and sets no local state.
NoOp(log) == Where(log, "remote") = {} /\ Where(log, "set") = {}

\* C11 as stated: with no chat selected (currentChatId is null) every mutating
\* operation (handleSendMessage, generateResponse, handleRegenerateResponse,
\* addTaskToChat) issues no remote call and changes no local state.
C11_AsStated ==
    \A i \in DOMAIN ctl :
        ctl[i].op \in MutatingOps /\ ctl[i].currentChatId = NoChat => NoOp(ctl[i].log)

\* The guarded operations alone are no-ops with no chat selected.
GuardedOpsAreNoOps ==
    \A i \in DOMAIN ctl :
        /\ ctl[i].op \in MutatingOps \ {"handleSendMessage"}
        /\ ctl[i].currentChatId = NoChat
        => NoOp(ctl[i].log)

\* Invocation i is suspended on the fetch of a chat and this step settles it.
ChatFetchSettles(i) == Awaits(i, "fetchChatById", "fetchItem") /\ Runs(i)
ChatFetched(i) == Has(ctl'[i].log, settled("fetchChatById", "fetchItem", "ok"))

\* C12: handleSelectChat(id) is atomic for its caller: when the chat fetch
\* succeeds, messages, agents (the singleton list of the chat's agent), the
\* current chat and its id are all replaced from the one fetched chat in the
\* step in which the operation returns; when the fetch fails all four keep
\* their values.
C12_SelectChatAtomic ==
    [][\A i \in DOMAIN ctl :
         ctl[i].op = "handleSelectChat" /\ ChatFetchSettles(i) =>
            /\ Done(ctl'[i])
            /\ IF ChatFetched(i)
               THEN /\ currentChat' = chats[ctl[i].chatId]
                    /\ currentChat'.id = ctl[i].chatId
                    /\ currentChatId' = currentChat'.id
                    /\ messages' = currentChat'.messages
                    /\ agents' = <<currentChat'.agent>>
               ELSE /\ currentChat' = currentChat
                    /\ currentChatId' = currentChatId
                    /\ messages' = messages
                    /\ agents' = agents]_vars

C12_Witness ==
    \E i, j \in DOMAIN ctl :
        /\ ctl[i].op = "handleSelectChat" /\ ctl[i].chatId = "B"
        /\ Has(ctl[i].log, settled("fetchChatById", "fetchItem", "ok"))
        /\ ctl[j].op = "handleSelectChat" /\ ctl[j].chatId = "A"
        /\ Has(ctl[j].log, settled("fetchChatById", "fetchItem", "err"))
        /\ i < j
        /\ currentChatId = "B"
        /\ currentChat = chats["B"]
        /\ agents = <<"B">>

----------------------------------------------------------------------------
ControllerOps ==
    {"handleSelectChat", "handleSendMessage", "generateResponse", "handleRegenerateResponse",
     "addTaskToChat", "fetchChats", "fetchAvailableTasks", "fetchAvailableTaskResults"}
FacadeOps == {"fetchItem", "updateItem", "sendMessage", "generateChatResponse"}

\* C13: every Chat Session Controller operation swallows a Remote-Call
\* Failure: no controller operation ever rejects, an operation that ended has
\* returned, and the only notifications of an invocation are those of the API
\* Facade functions it called, an error notification only right after a failed
\* remote call of that function.
C13_FailuresSwallowed ==
    \A i \in DOMAIN ctl :
        LET log == ctl[i].log
        IN  /\ ctl[i].op \in ControllerOps
            /\ \A k \in Where(log, "throw") : log[k][2] \notin ControllerOps
            /\ Done(ctl[i]) =>
                  /\ log[Len(log)][1] = "return"
                  /\ log[Len(log)][2] = ctl[i].op
            /\ \A n \in Where(log, "notify") :
                  /\ log[n][2] \in FacadeOps
                  /\ log[n][3] = "error" =>
                        /\ log[n - 1][1] = "settle"
                        /\ log[n - 1][2] = log[n][2]
                        /\ log[n - 1][4] = "err"

C13_Witness ==
    \E i, j \in DOMAIN ctl :
        /\ ctl[i].op = "fetchAvailableTasks" /\ Done(ctl[i])
        /\ Has(ctl[i].log, settled("fetchAvailableTasks", "fetchItem", "err"))
        /\ ctl[j].op = "handleSendMessage" /\ Done(ctl[j])
        /\ Has(ctl[j].log, addNotification("generateChatResponse", "error"))

\* C14: fetchAvailableTasks and fetchAvailableTaskResults always return a
\* sequence: the one-element sequence of the item when the backend answers a
\* single item, the backend's sequence unchanged when it answers a sequence,
\* and the empty sequence when the fetch fails.
C14_AlwaysASequence ==
    \A i \in DOMAIN ctl :
        ctl[i].op \in {"fetchAvailableTasks", "fetchAvailableTaskResults"} /\ Done(ctl[i]) =>
            /\ ctl[i].result.array
            /\ IF Has(ctl[i].log, settled(ctl[i].op, "fetchItem", "err"))
               THEN ctl[i].result.value = <<>>
               ELSE IF ctl[i].answer.array
                    THEN ctl[i].result.value = ctl[i].answer.value
                    ELSE /\ Len(ctl[i].result.value) = 1
                         /\ ctl[i].result.value[1] = ctl[i].answer.value

C14_Witness ==
    \E i, j \in DOMAIN ctl :
        /\ ctl[i].op = "fetchAvailableTasks" /\ Done(ctl[i])
        /\ ctl[i].answer = Scalar("task1")
        /\ ctl[i].result = Array(<<"task1">>)
        /\ ctl[j].op = "fetchAvailableTaskResults" /\ Done(ctl[j])
        /\ Has(ctl[j].log, settled("fetchAvailableTaskResults", "fetchItem", "err"))
        /\ ctl[j].result = Array(<<>>)

----------------------------------------------------------------------------
\* C15: a sendMessage whose remote send resolved publishes exactly two events,
\* created:messages carrying the original message and then updated:chats
\* carrying the chat the backend returned; a sendMessage whose remote send
\* failed (or has not resolved) has published none.
C15_SendPublishesTwoEvents ==
    \A i \in DOMAIN api :
        api[i].op = "sendMessage" =>
            LET log == api[i].log
                E == Where(log, "emit")
            IN  IF Has(log, settled("sendMessage", "apiSendMessage", "ok"))
                THEN /\ Cardinality(E) = 2
                     /\ \E e1, e2 \in E :
                           /\ e1 < e2
                           /\ log[e1] = emitEventData("sendMessage", "created", "messages", "message")
                           /\ log[e2] = emitEventData("sendMessage", "updated", "chats", "result")
                ELSE E = {}

C15_Witness ==
    \E i, j \in DOMAIN api :
        /\ api[i].op = "sendMessage" /\ Outcome(api[i]) = "chat"
        /\ api[j].op = "sendMessage" /\ Outcome(api[j]) = "rejected"

\* What a generateChatResponse did.
Refetched(t) == Has(t.log, remoteCall("generateChatResponse", "apiFetchItem"))
Published(t) == Where(t.log, "emit") # {}

\* C16 as stated: generateChatResponse re-fetches the chat and publishes
\* updated:chats if and only if the remote generation returned a truthy
\* result; with a falsy result it does neither; in both cases it returns the
\* remote result.
C16_AsStated ==
    \A i \in DOMAIN api :
        api[i].op = "generateChatResponse" /\ Done(api[i]) /\ api[i].result # "pending" =>
            /\ Refetched(api[i]) <=> api[i].result = "true"
            /\ Published(api[i]) <=> api[i].result = "true"
            /\ Outcome(api[i]) = api[i].result

\* C16 amended: generateChatResponse re-fetches the chat if and only if the
\* remote generation returned a truthy result; it publishes updated:chats,
\* once and with the refreshed chat, if and only if the result was truthy and
\* the re-fetch succeeded; it returns the remote result unless the re-fetch
\* failed, and then it rejects.
C16_RefetchIffTruthy ==
    \A i \in DOMAIN api :
        api[i].op = "generateChatResponse" /\ api[i].result # "pending" =>
            LET log == api[i].log
                refetchOk == Has(log, settled("generateChatResponse", "apiFetchItem", "ok"))
                refetchErr == Has(log, settled("generateChatResponse", "apiFetchItem", "err"))
            IN  /\ Refetched(api[i]) <=> api[i].result = "true"
                /\ Published(api[i]) <=> api[i].result = "true" /\ refetchOk
                /\ \A e \in Where(log, "emit") :
                      /\ log[e] = emitEventData("generateChatResponse", "updated", "chats",
                                                "updatedChat")
                      /\ Cardinality(Where(log, "emit")) = 1
                /\ Done(api[i]) =>
                      Outcome(api[i]) = IF refetchErr THEN "rejected" ELSE api[i].result

C16_Witness ==
    \E i, j \in DOMAIN api :
        /\ api[i].op = "generateChatResponse" /\ api[i].result = "true"
        /\ Outcome(api[i]) = "rejected"
        /\ api[j].op = "generateChatResponse" /\ api[j].result = "false"
        /\ Outcome(api[j]) = "false"

\* C17: a path the user cancelled never raises: "Use Existing" in
\* requestFileTranscript resolves with the transcript the file already had,
\* without a call of updateItem and without an event; a cancelled deleteItem
\* resolves false.
C17_CancelNeverRaises ==
    \A i \in DOMAIN api :
        LET log == api[i].log
        IN  /\ Has(log, dialogChoice("requestFileTranscript", "cancel")) =>
                  /\ api[i].fileData # NoTranscript
                  /\ Outcome(api[i]) = api[i].fileData
                  /\ Calls(log, "updateItem") = {}
                  /\ \A k \in Where(log, "remote") :
                        log[k] = remoteCall("requestFileTranscript", "apiFetchItem")
                  /\ Where(log, "emit") = {}
                  /\ Where(log, "throw") = {}
            /\ Has(log, dialogChoice("deleteItem", "cancel")) =>
                  /\ Outcome(api[i]) = "false"
                  /\ Where(log, "throw") = {}

C17_Witness ==
    \E i, j \in DOMAIN api :
        /\ api[i].op = "requestFileTranscript" /\ Outcome(api[i]) = OldTranscript
        /\ Has(api[i].log, dialogChoice("requestFileTranscript", "cancel"))
        /\ api[j].op = "deleteItem" /\ Outcome(api[j]) = "false"
        /\ Has(api[j].log, dialogChoice("deleteItem", "cancel"))

----------------------------------------------------------------------------
\* C18 as stated: in every state in which some generateResponse has started
\* its remote generation and has not settled, isGenerating is true, also when
\* two generateResponse calls overlap.
C18_AsStated ==
    (\E i \in DOMAIN ctl : Generating(ctl[i])) => isGenerating = TRUE

\* The flag does cover a generateResponse that no other one overlaps.
GeneratingAlone ==
    \A i \in DOMAIN ctl :
        /\ Generating(ctl[i])
        /\ \A j \in DOMAIN ctl \ {i} : Calls(ctl[j].log, "generateResponse") = {}
        => isGenerating = TRUE

\* Invocation i is waiting for the remote generation.
GenerationPending(i) ==
    i \in DOMAIN ctl /\ Pending(ctl[i].log) = <<"generateChatResponse", "apiGenerateChatResponse">>

\* Where every remote call settles, every generateResponse ends and
\* isGenerating returns to false.
EventuallyIdle ==
    /\ \A i \in 1..MaxCtlCalls :
          (i \in DOMAIN ctl /\ Generating(ctl[i])) ~> (i \in DOMAIN ctl /\ Done(ctl[i]))
    /\ (isGenerating = TRUE) ~> (isGenerating = FALSE)

\* C19 as stated: if every remote call eventually settles, every
\* generateResponse eventually completes and isGenerating eventually returns
\* to false; and while a remote generation call is pending isGenerating stays
\* true.
C19_AsStated ==
    /\ EventuallyIdle
    /\ [](\A i \in 1..MaxCtlCalls : GenerationPending(i) => isGenerating = TRUE)

----------------------------------------------------------------------------
\* The chat an invocation fetches: the one handleSelectChat was called with,
\* or the one selected when the generateResponse that re-fetches was called.
FetchedChatId(i) ==
    IF ctl[i].op \in GenOps THEN ctl[i].currentChatId ELSE ctl[i].chatId

\* C20: the last chat fetch to complete wins: whenever the chat fetch of a
\* handleSelectChat or of a re-fetch completes, whatever other fetches are in
\* flight or completed before it and in whatever order they were called, the
\* local messages, agents and currentChat become those of that response.
C20_LastToCompleteWins ==
    [][\A i \in DOMAIN ctl :
         ChatFetchSettles(i) /\ ChatFetched(i) =>
            /\ currentChat' = chats[FetchedChatId(i)]
            /\ messages' = chats[FetchedChatId(i)].messages
            /\ agents' = <<chats[FetchedChatId(i)].agent>>]_vars

\* Two handleSelectChat in flight at once, the one called first completed last.
C20_Witness ==
    /\ Len(ctl) >= 2
    /\ ctl[1].op = "handleSelectChat" /\ ctl[1].chatId = "B"
    /\ ctl[2].op = "handleSelectChat" /\ ctl[2].chatId = "A"
    /\ Has(ctl[1].log, settled("fetchChatById", "fetchItem", "ok"))
    /\ Has(ctl[2].log, settled("fetchChatById", "fetchItem", "ok"))
    /\ currentChatId = "B"
    /\ currentChat = chats["B"]
    /\ messages = chats["B"].messages
    /\ agents = <<"B">>

----------------------------------------------------------------------------
IsPrefix(s, t) == Len(s) <= Len(t) /\ SubSeq(t, 1, Len(s)) = s

\* The ways the displayed messages may change in one step.
MessagesFetched ==
    \E i \in DOMAIN ctl :
        /\ ChatFetchSettles(i) /\ ChatFetched(i)
        /\ messages' = chats[FetchedChatId(i)].messages
MessageAppended ==
    \E i \in DOMAIN ctl :
        /\ ctl[i].op = "handleSendMessage"
        /\ Awaits(i, "sendMessage", "apiSendMessage") /\ Runs(i)
        /\ messages' = Append(messages, ctl[i].message)
MessagesTrimmed ==
    \E i \in DOMAIN ctl :
        /\ ctl[i].op = "handleRegenerateResponse"
        /\ Awaits(i, "updateItem", "apiUpdateItem") /\ Runs(i)
        /\ IsPrefix(messages', messages)

\* C21 as stated: the displayed message sequence is always the messages of
\* the last successfully fetched chat followed by the locally appended
\* confirmed messages in send order, or a prefix of that after a regenerate
\* trim: every step leaves it unchanged, replaces it by a fetched chat's
\* messages, appends a sent message to it, or trims it to a prefix, under any
\* interleaving of the operations.
C21_AsStated ==
    [][\/ messages' = messages
       \/ MessagesFetched
       \/ MessageAppended
       \/ MessagesTrimmed]_vars

\* What the code does beyond that: a handleRegenerateResponse sets the
\* sequence it trimmed when it was called, whatever is displayed by then.
MessagesChangeOnlyBy ==
    [][\/ messages' = messages
       \/ MessagesFetched
       \/ MessageAppended
       \/ \E i \in DOMAIN ctl :
             /\ ctl[i].op = "handleRegenerateResponse"
             /\ Awaits(i, "updateItem", "apiUpdateItem") /\ Runs(i)
             /\ messages' = LongestUserPrefix(ctl[i].messages)]_vars

----------------------------------------------------------------------------
\* No controller operation is in flight.
Idle == \A i \in DOMAIN ctl : Done(ctl[i])

\* C22 as stated: whenever no controller operation is in flight and a chat
\* is selected, currentChat and agents are those of the chat that
\* currentChatId names (currentChat._id = currentChatId), also after a
\* handleSelectChat for another chat was interleaved with a pending
\* generateResponse or handleSendMessage.
C22_AsStated ==
    Idle /\ currentChatId # NoChat =>
        /\ currentChat.id = currentChatId
        /\ agents = <<chats[currentChatId].agent>>

----------------------------------------------------------------------------
Severities(log) == {log[n][3] : n \in Where(log, "notify")}
ErrorNotifications(log) == {n \in Where(log, "notify") : log[n][3] = "error"}

\* C23 as stated: one invocation of an API Facade operation never shows both
\* a success and an error Notification, and an invocation that rejected has
\* published no event.
C23_AsStated ==
    \A i \in DOMAIN api :
        /\ ~({"success", "error"} \subseteq Severities(api[i].log))
        /\ Outcome(api[i]) = "rejected" => Where(api[i].log, "emit") = {}

\* The two kinds of invocation that do so.
SuccessThenError ==
    \A i \in DOMAIN api :
        {"success", "error"} \subseteq Severities(api[i].log) =>
            /\ api[i].op \in {"generateChatResponse", "updateMessageInChat"}
            /\ Has(api[i].log, settled(api[i].op, "apiFetchItem", "err"))

\* C24 as stated, for the operations that show notifications (fetchItem and
\* retrieveFile show none): an invocation in which a remote call failed shows
\* exactly one error Notification, also a requestFileTranscript whose nested
\* updateItem failed.
C24_AsStated ==
    \A i \in DOMAIN api :
        /\ api[i].op \notin {"fetchItem", "retrieveFile"}
        /\ Done(api[i])
        /\ \E k \in Where(api[i].log, "settle") : api[i].log[k][4] = "err"
        => Cardinality(ErrorNotifications(api[i].log)) = 1

\* The one kind of invocation that shows two.
TwoErrorNotifications ==
    \A i \in DOMAIN api :
        Cardinality(ErrorNotifications(api[i].log)) > 1 =>
            /\ api[i].op = "requestFileTranscript"
            /\ Has(api[i].log, settled("updateItem", "apiUpdateItem", "err"))
            /\ Cardinality(ErrorNotifications(api[i].log)) = 2

====
